---- MODULE Spec2Model ----
(***************************************************************************)
(* Proof-of-stake validator bookkeeping (proof_of_stake/src/lib.rs): the   *)
(* `Pos` storage trait with its two provided operations, `init_genesis`    *)
(* and `become_validator`, over epoched (epoch-versioned) data.            *)
(*                                                                         *)
(* lib.rs is modelled from its source.  The modules it imports (`epoched`, *)
(* `types`, `btree_set`, `parameters`) are modelled from the               *)
(* specification's description of them (sections 3, 4.1 and 4.2).          *)
(***************************************************************************)
EXTENDS Integers, Sequences, FiniteSets, TLC

(***************************************************************************)
(* Bounds of the model                                                     *)
(***************************************************************************)
MaxEpoch == 2
MaxGenesis == 2

Addresses == 1..3
GenesisRewardAddresses == {11}
RewardAddresses == {12}
GenesisPublicKeys == {"pk0"}
PublicKeys == {"pk1", "pk2"}
TokenAmounts == 0..2
StartEpochs == {0, 1}
LengthChoices == 1..2
SlotChoices == 1..2

(***************************************************************************)
(* Option<T>                                                               *)
(***************************************************************************)
None == [some |-> FALSE]
Some(x) == [some |-> TRUE, value |-> x]

Max(S) == CHOOSE x \in S : \A y \in S : y <= x
Min2(a, b) == IF a <= b THEN a ELSE b

\* Epoch arithmetic is saturating: it never goes below zero.
SatSub(a, b) == IF a >= b THEN a - b ELSE 0

(***************************************************************************)
(* parameters::PosParams                                                   *)
(***************************************************************************)
PosParams ==
    { [pipeline_length |-> p, unbonding_length |-> u, max_validator_slots |-> m] :
        p \in LengthChoices, u \in LengthChoices, m \in SlotChoices }

\* unbonding_length >= pipeline_length >= 1
ValidParams == { ps \in PosParams : ps.unbonding_length >= ps.pipeline_length }

\* epoched::DynEpochOffset
offset(offset_kind, params) ==
    IF offset_kind = "PipelineLen" THEN params.pipeline_length
    ELSE params.unbonding_length

(***************************************************************************)
(* epoched::Epoched / EpochedDelta: an ordered map from Epoch to a value,  *)
(* held as a function whose domain is the set of epochs that have an       *)
(* entry.                                                                  *)
(***************************************************************************)
Entry(e, v) == [k \in {e} |-> v]

\* the entry with the greatest key <= epoch; None when epoch precedes every
\* retained entry
get(data, epoch) ==
    LET ks == { k \in DOMAIN data : k <= epoch }
    IN  IF ks = {} THEN None ELSE Some(data[Max(ks)])

\* EpochedDelta::get: the sum of the increments with key <= epoch
RECURSIVE SumOver(_, _)
SumOver(data, ks) ==
    IF ks = {} THEN 0
    ELSE LET k == CHOOSE x \in ks : TRUE IN data[k] + SumOver(data, ks \ {k})

get_delta(data, epoch) ==
    LET ks == { k \in DOMAIN data : k <= epoch }
    IN  IF ks = {} THEN None ELSE Some(SumOver(data, ks))

\* single-entry history valid from epoch0 onward
init_at_genesis(value, epoch0) == Entry(epoch0, value)

\* single-entry history valid starting at epoch + pipeline_length
init(value, epoch, params) == Entry(epoch + params.pipeline_length, value)

\* Entries effective before epoch - unbonding_length are dropped; the value
\* that answers the oldest in-window query is kept as the entry of the
\* oldest in-window epoch.
prune(data, epoch, params) ==
    LET cutoff == SatSub(epoch, params.unbonding_length)
        keep   == { k \in DOMAIN data : k >= cutoff }
        old    == { k \in DOMAIN data : k < cutoff }
    IN  IF old = {} THEN data
        ELSE [k \in keep \cup {cutoff} |->
                IF k \in keep THEN data[k] ELSE data[Max(old)]]

\* insert or overwrite the entry at `at`
put(data, at, value) ==
    [k \in DOMAIN data \cup {at} |-> IF k = at THEN value ELSE data[k]]

\* A variant of set without the pipeline delay.
set_no_delay(data, value, epoch, params) ==
    put(prune(data, epoch, params), epoch, value)

\* inserts an entry effective at epoch + pipeline_length, prunes entries
\* effective before epoch - unbonding_length
set(data, value, epoch, params) ==
    put(prune(data, epoch, params), epoch + params.pipeline_length, value)

\* update_from_offset resolves the future value of epoch + offset: the entry
\* of that epoch, falling back to the value effective at `epoch` if no entry
\* yet exists there ...
get_at_offset(data, epoch, offset_kind, params) ==
    LET at == epoch + offset(offset_kind, params)
    IN  IF at \in DOMAIN data THEN Some(data[at]) ELSE get(data, epoch)

\* ... applies the caller's transform to a copy of it (`transformed` is the
\* result of the closure) and commits the result as the entry of that same
\* future epoch
update_from_offset(data, transformed, epoch, offset_kind, params) ==
    put(prune(data, epoch, params), epoch + offset(offset_kind, params), transformed)

(***************************************************************************)
(* types::VotingPower, types::WeightedValidator, btree_set::BTreeSetShims  *)
(***************************************************************************)
VotesPerToken == 2

\* a fixed-point scaling of the token amount: deterministic, monotone, injective
from_tokens(tokens, params) == tokens * VotesPerToken

WeightedValidator(voting_power, address) ==
    [voting_power |-> voting_power, address |-> address]

\* Ord of WeightedValidator: voting power first, address second
Less(x, y) ==
    \/ x.voting_power < y.voting_power
    \/ x.voting_power = y.voting_power /\ x.address < y.address

\* the first (least) member of an ordered set: the minimum-power member,
\* ties broken by address ascending
first(s) == CHOOSE x \in s : \A y \in s : y = x \/ Less(x, y)

last(s) == CHOOSE x \in s : \A y \in s : y = x \/ Less(y, x)

ValidatorSet(active, inactive) == [active |-> active, inactive |-> inactive]

(***************************************************************************)
(* The storage behind the `Pos` trait: one variable per read_/write_ pair  *)
(***************************************************************************)
VARIABLES
    params,                              \* write_params
    validator_staking_reward_address,    \* per address: Option<Address>
    validator_consensus_key,             \* per address: Option<Epoched<PublicKey>>
    validator_state,                     \* per address: Option<Epoched<ValidatorState>>
    validator_total_deltas,              \* per address: Option<EpochedDelta<TokenChange>>
    validator_voting_power,              \* per address: Option<Epoched<VotingPower>>
    bond,                                \* per BondId: Option<Epoched<Bond>>
    validator_set,                       \* Option<Epoched<ValidatorSet>>
    total_voting_power,                  \* Option<Epoched<VotingPower>>
    transfers,                           \* number of calls of transfer
    block_epoch,                         \* the ledger's current epoch
    last_call                            \* the call of the trait made by the last step, if any

storage ==
    << params, validator_staking_reward_address, validator_consensus_key,
       validator_state, validator_total_deltas, validator_voting_power, bond,
       validator_set, total_voting_power, transfers >>

vars == << storage, block_epoch, last_call >>

BondId(source, validator) == << source, validator >>
BondIds == Addresses \X Addresses

\* the records of the genesis validator list
GenesisValidator ==
    { [address |-> a, staking_reward_address |-> r, tokens |-> t, consensus_key |-> k] :
        a \in Addresses, r \in GenesisRewardAddresses, t \in TokenAmounts,
        k \in GenesisPublicKeys }

RECURSIVE SeqsUpTo(_, _)
SeqsUpTo(S, n) ==
    IF n = 0 THEN { << >> }
    ELSE LET shorter == SeqsUpTo(S, n - 1)
         IN  shorter \cup { Append(q, x) : q \in { r \in shorter : Len(r) = n - 1 }, x \in S }

GenesisLists == SeqsUpTo(GenesisValidator, MaxGenesis)

\* Pos::is_validator
is_validator(address) == validator_state[address].some

(***************************************************************************)
(* init_genesis_data                                                       *)
(***************************************************************************)
\* A variant of the loop whose set is keyed by the address alone: a record
\* whose address is already a member is not inserted.
RECURSIVE accumulate_by_address(_, _, _, _)
accumulate_by_address(ps, validators, active, total) ==
    IF validators = << >> THEN [active |-> active, total_voting_power |-> total]
    ELSE LET voting_power == from_tokens(Head(validators).tokens, ps)
             present == \E w \in active : w.address = Head(validators).address
         IN  accumulate_by_address(ps, Tail(validators),
                IF present THEN active
                ELSE active \cup { WeightedValidator(voting_power, Head(validators).address) },
                total + voting_power)

\* the loop over the validators: every record adds its voting power to the
\* total and is inserted into the active BTreeSet
RECURSIVE accumulate(_, _, _, _)
accumulate(ps, validators, active, total) ==
    IF validators = << >> THEN [active |-> active, total_voting_power |-> total]
    ELSE LET voting_power == from_tokens(Head(validators).tokens, ps)
         IN  accumulate(ps, Tail(validators),
                        active \cup { WeightedValidator(voting_power, Head(validators).address) },
                        total + voting_power)

\* btree_set::BTreeSetShims::pop_first_shim removes and returns the first member
pop_first_shim(s) == IF s = {} THEN None ELSE Some(first(s))

\* A variant of the trim that pops the last (greatest) member instead.
RECURSIVE trim_pop_last(_, _, _)
trim_pop_last(ps, active, inactive) ==
    IF Cardinality(active) > ps.max_validator_slots
    THEN trim_pop_last(ps, active \ { last(active) }, inactive \cup { last(active) })
    ELSE ValidatorSet(active, inactive)

\* A variant of the trim whose bound is off by one.
RECURSIVE trim_one_more(_, _, _)
trim_one_more(ps, active, inactive) ==
    IF Cardinality(active) > ps.max_validator_slots + 1
    THEN trim_one_more(ps, active \ { first(active) }, inactive \cup { first(active) })
    ELSE ValidatorSet(active, inactive)

\* while active.len() > max_validator_slots: pop the first of active into inactive
RECURSIVE trim(_, _, _)
trim(ps, active, inactive) ==
    IF Cardinality(active) > ps.max_validator_slots
    THEN LET popped == pop_first_shim(active)
         IN  IF popped.some
             THEN trim(ps, active \ { popped.value }, inactive \cup { popped.value })
             ELSE ValidatorSet(active, inactive)
    ELSE ValidatorSet(active, inactive)

\* A variant that initialises the state and the voting power with the
\* pipeline delay.
GenesisValidatorData_delayed(ps, v, current_epoch) ==
    [ address                |-> v.address,
      staking_reward_address |-> v.staking_reward_address,
      consensus_key          |-> init_at_genesis(v.consensus_key, current_epoch),
      state                  |-> init("Candidate", current_epoch, ps),
      total_deltas           |-> init_at_genesis(v.tokens, current_epoch),
      voting_power           |-> init(from_tokens(v.tokens, ps), current_epoch, ps),
      bond_id                |-> BondId(v.address, v.address),
      bond                   |-> init_at_genesis([delta |-> Entry(current_epoch, v.tokens)],
                                                 current_epoch) ]

\* validators.map(...): the per-validator genesis data
GenesisValidatorData(ps, v, current_epoch) ==
    [ address                |-> v.address,
      staking_reward_address |-> v.staking_reward_address,
      consensus_key          |-> init_at_genesis(v.consensus_key, current_epoch),
      state                  |-> init_at_genesis("Candidate", current_epoch),
      total_deltas           |-> init_at_genesis(v.tokens, current_epoch),
      voting_power           |-> init_at_genesis(from_tokens(v.tokens, ps), current_epoch),
      bond_id                |-> BondId(v.address, v.address),
      bond                   |-> init_at_genesis([delta |-> Entry(current_epoch, v.tokens)],
                                                 current_epoch) ]

init_genesis_data(ps, validators, current_epoch) ==
    LET acc == accumulate(ps, validators, {}, 0)
        vs  == trim(ps, acc.active, {})
    IN  [ validators         |-> [i \in 1..Len(validators) |->
                                    GenesisValidatorData(ps, validators[i], current_epoch)],
          validator_set      |-> init_at_genesis(vs, current_epoch),
          total_voting_power |-> init_at_genesis(acc.total_voting_power, current_epoch) ]

\* validators.for_each(write ...): the writes happen in list order, so the last
\* record of a key is the one that stays
LastWrite(keys, old, key) ==
    LET hits == { i \in DOMAIN keys : keys[i] = key }
    IN  IF hits = {} THEN None ELSE Some(Max(hits))

\* Pos::init_genesis
init_genesis(ps, validators, current_epoch) ==
    LET data  == init_genesis_data(ps, validators, current_epoch)
        addrs == [i \in DOMAIN data.validators |-> data.validators[i].address]
        bids  == [i \in DOMAIN data.validators |-> data.validators[i].bond_id]
        W(old, keys, key, field(_)) ==
            LET w == LastWrite(keys, old, key)
            IN  IF w.some THEN Some(field(data.validators[w.value])) ELSE old[key]
        f_reward(d) == d.staking_reward_address
        f_key(d)    == d.consensus_key
        f_state(d)  == d.state
        f_deltas(d) == d.total_deltas
        f_power(d)  == d.voting_power
        f_bond(d)   == d.bond
    IN  /\ params' = Some(ps)
        /\ validator_staking_reward_address' =
              [a \in Addresses |-> W(validator_staking_reward_address, addrs, a, f_reward)]
        /\ validator_consensus_key' =
              [a \in Addresses |-> W(validator_consensus_key, addrs, a, f_key)]
        /\ validator_state' = [a \in Addresses |-> W(validator_state, addrs, a, f_state)]
        /\ validator_total_deltas' =
              [a \in Addresses |-> W(validator_total_deltas, addrs, a, f_deltas)]
        /\ validator_voting_power' =
              [a \in Addresses |-> W(validator_voting_power, addrs, a, f_power)]
        /\ bond' = [b \in BondIds |-> W(bond, bids, b, f_bond)]
        /\ validator_set' = Some(data.validator_set)
        /\ total_voting_power' = Some(data.total_voting_power)
        /\ UNCHANGED transfers

(***************************************************************************)
(* become_validator_data                                                   *)
(***************************************************************************)
\* the closure given to update_from_offset
insert_inactive(vs, address) ==
    ValidatorSet(vs.active, vs.inactive \cup { WeightedValidator(0, address) })

\* A variant that binds the consensus key at the current epoch.
become_validator_data_key_now(ps, address, consensus_key, vset, current_epoch) ==
    LET key    == init_at_genesis(consensus_key, current_epoch)
        state0 == init("Pending", current_epoch, ps)
        state  == set(state0, "Candidate", current_epoch, ps)
        cur    == get_at_offset(vset, current_epoch, "PipelineLen", ps)
    IN  [ consensus_key |-> key,
          state         |-> state,
          validator_set |-> IF cur.some
                            THEN update_from_offset(vset, insert_inactive(cur.value, address),
                                                    current_epoch, "PipelineLen", ps)
                            ELSE prune(vset, current_epoch, ps) ]

\* A variant whose closure inserts into the active partition.
become_validator_data_active(ps, address, consensus_key, vset, current_epoch) ==
    LET key    == init(consensus_key, current_epoch, ps)
        state0 == init("Pending", current_epoch, ps)
        state  == set(state0, "Candidate", current_epoch, ps)
        cur    == get_at_offset(vset, current_epoch, "PipelineLen", ps)
    IN  [ consensus_key |-> key,
          state         |-> state,
          validator_set |-> IF cur.some
                            THEN update_from_offset(vset,
                                    ValidatorSet(cur.value.active
                                                   \cup { WeightedValidator(0, address) },
                                                 cur.value.inactive),
                                    current_epoch, "PipelineLen", ps)
                            ELSE prune(vset, current_epoch, ps) ]

\* A variant that changes the validator set of the current epoch.
become_validator_data_current(ps, address, consensus_key, vset, current_epoch) ==
    LET key    == init(consensus_key, current_epoch, ps)
        state0 == init("Pending", current_epoch, ps)
        state  == set(state0, "Candidate", current_epoch, ps)
        cur    == get(vset, current_epoch)
    IN  [ consensus_key |-> key,
          state         |-> state,
          validator_set |-> IF cur.some
                            THEN put(prune(vset, current_epoch, ps), current_epoch,
                                     insert_inactive(cur.value, address))
                            ELSE prune(vset, current_epoch, ps) ]

\* A variant that replaces the history of the validator set by a new one that
\* starts at the pipeline epoch.
become_validator_data_reinit(ps, address, consensus_key, vset, current_epoch) ==
    LET key    == init(consensus_key, current_epoch, ps)
        state0 == init("Pending", current_epoch, ps)
        state  == set(state0, "Candidate", current_epoch, ps)
        cur    == get_at_offset(vset, current_epoch, "PipelineLen", ps)
    IN  [ consensus_key |-> key,
          state         |-> state,
          validator_set |-> IF cur.some
                            THEN init(insert_inactive(cur.value, address), current_epoch, ps)
                            ELSE prune(vset, current_epoch, ps) ]

\* A variant whose closure fills a free slot of the active partition.
become_validator_data_fill(ps, address, consensus_key, vset, current_epoch) ==
    LET key    == init(consensus_key, current_epoch, ps)
        state0 == init("Pending", current_epoch, ps)
        state  == set(state0, "Candidate", current_epoch, ps)
        cur    == get_at_offset(vset, current_epoch, "PipelineLen", ps)
        filled == IF Cardinality(cur.value.active) < ps.max_validator_slots
                  THEN ValidatorSet(cur.value.active \cup { WeightedValidator(0, address) },
                                    cur.value.inactive)
                  ELSE insert_inactive(cur.value, address)
    IN  [ consensus_key |-> key,
          state         |-> state,
          validator_set |-> IF cur.some
                            THEN update_from_offset(vset, filled, current_epoch,
                                                    "PipelineLen", ps)
                            ELSE prune(vset, current_epoch, ps) ]

become_validator_data(ps, address, consensus_key, vset, current_epoch) ==
    LET key    == init(consensus_key, current_epoch, ps)
        state0 == init("Pending", current_epoch, ps)
        state  == set(state0, "Candidate", current_epoch, ps)
        cur    == get_at_offset(vset, current_epoch, "PipelineLen", ps)
    IN  [ consensus_key |-> key,
          state         |-> state,
          validator_set |-> IF cur.some
                            THEN update_from_offset(vset, insert_inactive(cur.value, address),
                                                    current_epoch, "PipelineLen", ps)
                            ELSE prune(vset, current_epoch, ps) ]

\* A variant without the is_validator check.
become_validator_unchecked(address, staking_reward_address, consensus_key, current_epoch, result) ==
    LET data == become_validator_data(params.value, address, consensus_key,
                                      validator_set.value, current_epoch)
    IN  /\ result = "Ok"
        /\ validator_staking_reward_address' =
              [validator_staking_reward_address EXCEPT ![address] = Some(staking_reward_address)]
        /\ validator_consensus_key' =
              [validator_consensus_key EXCEPT ![address] = Some(data.consensus_key)]
        /\ validator_state' = [validator_state EXCEPT ![address] = Some(data.state)]
        /\ validator_set' = Some(data.validator_set)
        /\ UNCHANGED << params, validator_total_deltas, validator_voting_power,
                        bond, total_voting_power, transfers >>

\* A variant that writes the staking-reward address before the check.
become_validator_write_first(address, staking_reward_address, consensus_key, current_epoch, result) ==
    LET data == become_validator_data(params.value, address, consensus_key,
                                      validator_set.value, current_epoch)
    IN  /\ validator_staking_reward_address' =
              [validator_staking_reward_address EXCEPT ![address] = Some(staking_reward_address)]
        /\ UNCHANGED << params, validator_total_deltas, validator_voting_power,
                        bond, total_voting_power, transfers >>
        /\ IF is_validator(address)
           THEN /\ result = "AlreadyValidator"
                /\ UNCHANGED << validator_consensus_key, validator_state, validator_set >>
           ELSE /\ result = "Ok"
                /\ validator_consensus_key' =
                      [validator_consensus_key EXCEPT ![address] = Some(data.consensus_key)]
                /\ validator_state' = [validator_state EXCEPT ![address] = Some(data.state)]
                /\ validator_set' = Some(data.validator_set)

\* A variant that also writes the total voting power.
become_validator_writes_total(address, staking_reward_address, consensus_key, current_epoch, result) ==
    LET data == become_validator_data(params.value, address, consensus_key,
                                      validator_set.value, current_epoch)
    IN  IF is_validator(address)
        THEN /\ result = "AlreadyValidator"
             /\ UNCHANGED storage
        ELSE /\ result = "Ok"
             /\ validator_staking_reward_address' =
                   [validator_staking_reward_address EXCEPT
                      ![address] = Some(staking_reward_address)]
             /\ validator_consensus_key' =
                   [validator_consensus_key EXCEPT ![address] = Some(data.consensus_key)]
             /\ validator_state' = [validator_state EXCEPT ![address] = Some(data.state)]
             /\ validator_set' = Some(data.validator_set)
             /\ total_voting_power' =
                   Some(set(total_voting_power.value, 0, current_epoch, params.value))
             /\ UNCHANGED << params, validator_total_deltas, validator_voting_power,
                             bond, transfers >>

\* Pos::become_validator; its result is "Ok" or "AlreadyValidator"
become_validator(address, staking_reward_address, consensus_key, current_epoch, result) ==
    LET ps   == params.value
        vset == validator_set.value
    IN  IF is_validator(address)
        THEN /\ result = "AlreadyValidator"
             /\ UNCHANGED storage
        ELSE LET data == become_validator_data(ps, address, consensus_key, vset, current_epoch)
             IN  /\ result = "Ok"
                 /\ validator_staking_reward_address' =
                       [validator_staking_reward_address EXCEPT
                          ![address] = Some(staking_reward_address)]
                 /\ validator_consensus_key' =
                       [validator_consensus_key EXCEPT ![address] = Some(data.consensus_key)]
                 /\ validator_state' = [validator_state EXCEPT ![address] = Some(data.state)]
                 /\ validator_set' = Some(data.validator_set)
                 /\ UNCHANGED << params, validator_total_deltas, validator_voting_power,
                                 bond, total_voting_power, transfers >>

(***************************************************************************)
(* The state machine                                                       *)
(***************************************************************************)
Init ==
    /\ params = None
    /\ validator_staking_reward_address = [a \in Addresses |-> None]
    /\ validator_consensus_key = [a \in Addresses |-> None]
    /\ validator_state = [a \in Addresses |-> None]
    /\ validator_total_deltas = [a \in Addresses |-> None]
    /\ validator_voting_power = [a \in Addresses |-> None]
    /\ bond = [b \in BondIds |-> None]
    /\ validator_set = None
    /\ total_voting_power = None
    /\ transfers = 0
    /\ block_epoch \in StartEpochs
    /\ last_call = [op |-> "none"]

\* the genesis block: the storage is initialised once, at the start epoch
InitGenesis ==
    /\ ~params.some
    /\ \E ps \in ValidParams, validators \in GenesisLists :
          /\ init_genesis(ps, validators, block_epoch)
          /\ last_call' = [op |-> "init_genesis", params |-> ps, validators |-> validators,
                           current_epoch |-> block_epoch]
    /\ UNCHANGED block_epoch

\* a transaction asks for an account to become a validator
BecomeValidator ==
    /\ params.some
    /\ \E address \in Addresses, reward \in RewardAddresses, key \in PublicKeys,
          result \in {"Ok", "AlreadyValidator"} :
          /\ become_validator(address, reward, key, block_epoch, result)
          /\ last_call' = [op |-> "become_validator", address |-> address,
                           staking_reward_address |-> reward, consensus_key |-> key,
                           current_epoch |-> block_epoch, result |-> result]
    /\ UNCHANGED block_epoch

\* the ledger moves to the next epoch
NextEpoch ==
    /\ params.some
    /\ block_epoch < MaxEpoch
    /\ block_epoch' = block_epoch + 1
    /\ last_call' = [op |-> "none"]
    /\ UNCHANGED storage

(***************************************************************************)
(* Epoched::set on its own: one validator state, created by                *)
(* init_at_genesis or by init, is written by set at the ledger's epochs.   *)
(***************************************************************************)
ValidatorStates == {"Pending", "Candidate", "Inactive"}

SetInit ==
    /\ block_epoch \in StartEpochs
    /\ \E ps \in ValidParams, a \in Addresses, v \in ValidatorStates :
          /\ params = Some(ps)
          /\ validator_state \in
                { [b \in Addresses |->
                     IF b = a THEN Some(init_at_genesis(v, block_epoch)) ELSE None],
                  [b \in Addresses |->
                     IF b = a THEN Some(init(v, block_epoch, ps)) ELSE None] }
    /\ validator_staking_reward_address = [a \in Addresses |-> None]
    /\ validator_consensus_key = [a \in Addresses |-> None]
    /\ validator_total_deltas = [a \in Addresses |-> None]
    /\ validator_voting_power = [a \in Addresses |-> None]
    /\ bond = [b \in BondIds |-> None]
    /\ validator_set = None
    /\ total_voting_power = None
    /\ transfers = 0
    /\ last_call = [op |-> "none"]

\* state.set(value, current_epoch, params)
SetWrite ==
    /\ \E a \in Addresses, v \in ValidatorStates :
          /\ validator_state[a].some
          /\ validator_state' =
                [validator_state EXCEPT
                   ![a] = Some(set(validator_state[a].value, v, block_epoch, params.value))]
          /\ last_call' = [op |-> "set", address |-> a, value |-> v,
                           current_epoch |-> block_epoch]
    /\ UNCHANGED << params, validator_staking_reward_address, validator_consensus_key,
                    validator_total_deltas, validator_voting_power, bond, validator_set,
                    total_voting_power, transfers, block_epoch >>

SetNext == SetWrite \/ NextEpoch

SetSpec == SetInit /\ [][SetNext]_vars

Next == InitGenesis \/ BecomeValidator \/ NextEpoch

Spec == Init /\ [][Next]_vars

(***************************************************************************)
(* Helpers of the properties                                               *)
(***************************************************************************)
\* the epochs a property queries: up to the farthest epoch an entry can have
QueryEpochs == 0..(MaxEpoch + Max(LengthChoices) + 1)

\* the step is a call of become_validator for `a`
BecomeStep(a) == last_call'.op = "become_validator" /\ last_call'.address = a

\* the step is a successful call of become_validator for `a`
BecomeOk(a) == BecomeStep(a) /\ last_call'.result = "Ok"

\* the last step was a successful call of become_validator
JustBecame == last_call.op = "become_validator" /\ last_call.result = "Ok"

JustGenesis == last_call.op = "init_genesis"

Members(vs) == vs.active \cup vs.inactive

RECURSIVE SumPower(_)
SumPower(s) ==
    IF s = {} THEN 0
    ELSE LET x == CHOOSE y \in s : TRUE IN x.voting_power + SumPower(s \ {x})

DistinctAddresses(validators) ==
    \A i, j \in DOMAIN validators : validators[i].address = validators[j].address => i = j

PermutationsOf(validators) ==
    { [i \in DOMAIN validators |-> validators[f[i]]] : f \in Permutations(DOMAIN validators) }

(***************************************************************************)
(* C1: become_validator for an address that already has a recorded state   *)
(* returns AlreadyValidator and writes nothing: the staking-reward         *)
(* address, consensus key, state and validator set are unchanged.          *)
(***************************************************************************)
C1_AlreadyValidatorNoWrite ==
    [][\A a \in Addresses :
          (BecomeStep(a) /\ validator_state[a].some) =>
             /\ last_call'.result = "AlreadyValidator"
             /\ UNCHANGED << validator_staking_reward_address, validator_consensus_key,
                             validator_state, validator_set >>]_vars

C1_Witness ==
    /\ last_call.op = "become_validator"
    /\ last_call.result = "AlreadyValidator"
    /\ validator_state[last_call.address].some
    /\ validator_staking_reward_address[last_call.address]
          # Some(last_call.staking_reward_address)

(***************************************************************************)
(* C2: for an address with no recorded state the first become_validator    *)
(* succeeds and records a state; whatever happens in between, the state    *)
(* stays recorded; and a call for an address that became a validator       *)
(* returns AlreadyValidator and leaves the whole storage as it was.        *)
(***************************************************************************)
C2_SecondCallRejected ==
    [][\A a \in Addresses :
          /\ (BecomeStep(a) /\ ~validator_state[a].some) =>
                (last_call'.result = "Ok" /\ validator_state'[a].some)
          /\ validator_state[a].some => validator_state'[a].some
          /\ (BecomeStep(a) /\ validator_state[a].some) =>
                (last_call'.result = "AlreadyValidator" /\ storage' = storage)]_vars

\* the rejected call is the second one: the address holds the key of a first,
\* successful, become_validator
C2_Witness ==
    /\ last_call.op = "become_validator"
    /\ last_call.result = "AlreadyValidator"
    /\ validator_consensus_key[last_call.address].some
    /\ \E e \in QueryEpochs :
          LET k == get(validator_consensus_key[last_call.address].value, e)
          IN  k.some /\ k.value \in PublicKeys /\ k.value # last_call.consensus_key

(***************************************************************************)
(* C3: after a successful become_validator at epoch e with pipeline length *)
(* p the new validator's state is Pending at every epoch in [e, e+p) and   *)
(* Candidate at every epoch >= e+p.                                        *)
(***************************************************************************)
C3_PendingThenCandidate ==
    [][\A a \in Addresses :
          BecomeOk(a) =>
             \A e \in QueryEpochs :
                e >= block_epoch =>
                   get(validator_state'[a].value, e) =
                      IF e < block_epoch + params.value.pipeline_length
                      THEN Some("Pending") ELSE Some("Candidate")]_vars

(***************************************************************************)
(* C4: after a successful become_validator at epoch e with pipeline length *)
(* p, a query of the new validator's consensus key at an epoch < e+p       *)
(* returns the absent signal and a query at an epoch >= e+p returns the    *)
(* key that was supplied to the call.                                      *)
(***************************************************************************)
C4_ConsensusKeyAtPipeline ==
    [][\A a \in Addresses :
          BecomeOk(a) =>
             \A e \in QueryEpochs :
                get(validator_consensus_key'[a].value, e) =
                   IF e < block_epoch + params.value.pipeline_length
                   THEN None ELSE Some(last_call'.consensus_key)]_vars

C4_Witness ==
    /\ JustBecame
    /\ get(validator_consensus_key[last_call.address].value,
           block_epoch + params.value.pipeline_length - 1) = None
    /\ get(validator_consensus_key[last_call.address].value,
           block_epoch + params.value.pipeline_length) = Some(last_call.consensus_key)

(***************************************************************************)
(* C5: after a successful become_validator at epoch e with pipeline length *)
(* p the validator set effective at e+p holds the new address in its       *)
(* inactive partition with zero voting power, and not in its active one.   *)
(***************************************************************************)
C5_InactiveAtPipeline ==
    [][\A a \in Addresses :
          BecomeOk(a) =>
             LET vs == get(validator_set'.value,
                           block_epoch + params.value.pipeline_length)
             IN  /\ vs.some
                 /\ WeightedValidator(0, a) \in vs.value.inactive
                 /\ \A w \in vs.value.inactive : w.address = a => w.voting_power = 0
                 /\ \A w \in vs.value.active : w.address # a]_vars

C5_Witness ==
    /\ JustBecame
    /\ LET vs == get(validator_set.value, block_epoch + params.value.pipeline_length)
       IN  /\ vs.some
           /\ WeightedValidator(0, last_call.address) \in vs.value.inactive
           /\ vs.value.active # {}

(***************************************************************************)
(* C6: a successful become_validator at epoch e with pipeline length       *)
(* p >= 1 leaves the validator set effective at every epoch e' < e+p that  *)
(* is inside the unbonding window (e' >= e - unbonding_length) as it was;  *)
(* in particular the set of the current epoch e is not changed.            *)
(***************************************************************************)
C6_EarlierEpochsUntouched ==
    [][\A a \in Addresses :
          BecomeOk(a) =>
             \A e \in QueryEpochs :
                ( /\ e >= SatSub(block_epoch, params.value.unbonding_length)
                  /\ e < block_epoch + params.value.pipeline_length ) =>
                   get(validator_set'.value, e) = get(validator_set.value, e)]_vars

\* the call has acted (the set at e+p holds the address) on a set that had
\* a value at the current epoch, which does not hold the address
C6_Witness ==
    /\ JustBecame
    /\ LET now   == get(validator_set.value, block_epoch)
           later == get(validator_set.value, block_epoch + params.value.pipeline_length)
       IN  /\ now.some /\ later.some
           /\ \A w \in Members(now.value) : w.address # last_call.address
           /\ \E w \in Members(later.value) : w.address = last_call.address
           /\ block_epoch > params.value.unbonding_length

(***************************************************************************)
(* C7: a successful become_validator writes only the staking-reward        *)
(* address, consensus key and state of the given address and the validator *)
(* set: it never calls transfer and leaves params, total voting power,     *)
(* every voting power, total deltas and bond, and every other address's    *)
(* staking-reward address, consensus key and state unchanged.              *)
(***************************************************************************)
C7_WritesOnlyItsOwn ==
    [][\A a \in Addresses :
          BecomeOk(a) =>
             /\ UNCHANGED << params, total_voting_power, validator_voting_power,
                             validator_total_deltas, bond, transfers >>
             /\ \A b \in Addresses \ {a} :
                   /\ validator_staking_reward_address'[b] = validator_staking_reward_address[b]
                   /\ validator_consensus_key'[b] = validator_consensus_key[b]
                   /\ validator_state'[b] = validator_state[b]]_vars

C7_Witness ==
    /\ JustBecame
    /\ validator_staking_reward_address[last_call.address]
          = Some(last_call.staking_reward_address)
    /\ \E b \in Addresses \ {last_call.address} :
          validator_state[b].some /\ validator_voting_power[b].some /\ bond[BondId(b, b)].some
    /\ transfers = 0

(***************************************************************************)
(* C8: after init_genesis with n genesis validators (n records of pairwise *)
(* distinct addresses) and cap max_validator_slots, the genesis validator  *)
(* set has min(n, cap) active members, its inactive partition holds        *)
(* exactly the remaining validators, and every active member has voting    *)
(* power >= every inactive member.                                         *)
(***************************************************************************)
C8_GenesisPartition ==
    (JustGenesis /\ DistinctAddresses(last_call.validators)) =>
       LET vl  == last_call.validators
           ps  == last_call.params
           got == get(validator_set.value, last_call.current_epoch)
           all == { WeightedValidator(from_tokens(vl[i].tokens, ps), vl[i].address) :
                       i \in DOMAIN vl }
       IN  /\ got.some
           /\ Cardinality(got.value.active) = Min2(Len(vl), ps.max_validator_slots)
           /\ got.value.inactive = all \ got.value.active
           /\ got.value.active \subseteq all
           /\ Cardinality(got.value.inactive) = Len(vl) - Cardinality(got.value.active)
           /\ \A x \in got.value.active, y \in got.value.inactive :
                 x.voting_power >= y.voting_power

\* more validators than slots, of different powers
C8_Witness ==
    /\ JustGenesis
    /\ DistinctAddresses(last_call.validators)
    /\ Len(last_call.validators) > last_call.params.max_validator_slots
    /\ LET got == get(validator_set.value, last_call.current_epoch).value
       IN  \E x \in got.active, y \in got.inactive : x.voting_power > y.voting_power

(***************************************************************************)
(* C9: genesis initialization is order-independent: every permutation of   *)
(* the genesis list gives the same validator set (same active and inactive *)
(* partitions) and the same total voting power.                            *)
(***************************************************************************)
C9_GenesisOrderIndependent ==
    JustGenesis =>
       \A q \in PermutationsOf(last_call.validators) :
          LET data == init_genesis_data(last_call.params, q, last_call.current_epoch)
          IN  /\ Some(data.validator_set) = validator_set
              /\ Some(data.total_voting_power) = total_voting_power

\* a list that is not its own reversal, and that has to be trimmed
C9_Witness ==
    /\ JustGenesis
    /\ Len(last_call.validators) >= 2
    /\ last_call.validators[1] # last_call.validators[2]
    /\ get(validator_set.value, last_call.current_epoch).value.inactive # {}

(***************************************************************************)
(* C10: in every state reached by init_genesis (for any genesis list,      *)
(* lists that repeat an address included) followed by become_validator     *)
(* calls, at every queryable epoch the total voting power equals the sum   *)
(* of the voting powers of the members (active and inactive) of the        *)
(* validator set effective at that epoch.                                  *)
(***************************************************************************)
C10_TotalIsSumOfMembers ==
    params.some =>
       \A e \in QueryEpochs :
          LET vs  == get(validator_set.value, e)
              tvp == get(total_voting_power.value, e)
          IN  (vs.some /\ tvp.some) => tvp.value = SumPower(Members(vs.value))

\* the epoch versions of the validator set that the storage holds
Versions == { validator_set.value[k] : k \in DOMAIN validator_set.value }

(***************************************************************************)
(* C11: in every state reached by init_genesis (for any genesis list,      *)
(* lists that repeat an address with different token amounts included)     *)
(* followed by become_validator calls, every epoch version of the          *)
(* validator set has active and inactive disjoint by address and holds     *)
(* each address at most once overall.                                      *)
(***************************************************************************)
C11_OneMemberPerAddress ==
    params.some =>
       \A vs \in Versions :
          /\ \A x \in vs.active, y \in vs.inactive : x.address # y.address
          /\ \A x, y \in Members(vs) : x.address = y.address => x = y

(***************************************************************************)
(* C12: in every state reached by init_genesis followed by                 *)
(* become_validator calls, every epoch version of the validator set has    *)
(* at most max_validator_slots active members and no inversion: every      *)
(* active member has voting power >= every inactive member.                *)
(***************************************************************************)
C12_CapAndNoInversion ==
    params.some =>
       \A vs \in Versions :
          /\ Cardinality(vs.active) <= params.value.max_validator_slots
          /\ \A x \in vs.active, y \in vs.inactive : x.voting_power >= y.voting_power

\* a version with a full active partition, a trimmed genesis member and a
\* member added by become_validator
C12_Witness ==
    /\ JustBecame
    /\ \E vs \in Versions :
          /\ Cardinality(vs.active) = params.value.max_validator_slots
          /\ WeightedValidator(0, last_call.address) \in vs.inactive
          /\ \E y \in vs.inactive : y.address # last_call.address

(***************************************************************************)
(* C13: in every epoch version of the validator set reached by             *)
(* init_genesis followed by become_validator calls, either the inactive    *)
(* partition is empty or the active partition is at capacity: a validator  *)
(* is in inactive only when active holds max_validator_slots members.      *)
(***************************************************************************)
C13_InactiveOnlyAtCapacity ==
    params.some =>
       \A vs \in Versions :
          vs.inactive = {} \/ Cardinality(vs.active) = params.value.max_validator_slots

(***************************************************************************)
(* C14: after init_genesis at start epoch s every genesis validator (the   *)
(* records have pairwise distinct addresses) has, effective from epoch s   *)
(* with no pipeline delay: its consensus key, state Candidate, total       *)
(* deltas equal to its tokens, voting power equal to the conversion of its *)
(* tokens, its staking-reward address, and a self-bond that maps epoch s   *)
(* to its tokens; and the written params are the params passed in.         *)
(***************************************************************************)
C14_GenesisRecords ==
    (JustGenesis /\ DistinctAddresses(last_call.validators)) =>
       LET vl == last_call.validators
           ps == last_call.params
           s0 == last_call.current_epoch
       IN  /\ params = Some(ps)
           /\ \A i \in DOMAIN vl :
                 LET v == vl[i]
                     a == v.address
                 IN  /\ validator_staking_reward_address[a] = Some(v.staking_reward_address)
                     /\ validator_consensus_key[a].some
                     /\ validator_state[a].some
                     /\ validator_total_deltas[a].some
                     /\ validator_voting_power[a].some
                     /\ bond[BondId(a, a)].some
                     /\ \A e \in QueryEpochs :
                           e >= s0 =>
                              /\ get(validator_consensus_key[a].value, e) = Some(v.consensus_key)
                              /\ get(validator_state[a].value, e) = Some("Candidate")
                              /\ get_delta(validator_total_deltas[a].value, e) = Some(v.tokens)
                              /\ get(validator_voting_power[a].value, e)
                                    = Some(from_tokens(v.tokens, ps))
                              /\ get(bond[BondId(a, a)].value, e)
                                    = Some([delta |-> Entry(s0, v.tokens)])

\* two genesis validators of different token amounts, at a start epoch other
\* than 0
C14_Witness ==
    /\ JustGenesis
    /\ DistinctAddresses(last_call.validators)
    /\ Len(last_call.validators) >= 2
    /\ last_call.validators[1].tokens # last_call.validators[2].tokens
    /\ last_call.current_epoch > 0
    /\ bond[BondId(last_call.validators[2].address, last_call.validators[2].address)].some

(***************************************************************************)
(* C15: for every epoched value and every write by set at epoch e1 with    *)
(* pipeline length p, get(e) is the same before and after the write for    *)
(* every epoch e < e1 + p that is inside the retained window               *)
(* (e >= e1 - unbonding_length); the epochs >= e1 + p see the new value.   *)
(***************************************************************************)
C15_SetLeavesEarlierEpochs ==
    [][\A a \in Addresses :
          (last_call'.op = "set" /\ last_call'.address = a) =>
             LET old == validator_state[a].value
                 new == validator_state'[a].value
                 ps  == params.value
             IN  \A e \in QueryEpochs :
                    /\ ( /\ e < block_epoch + ps.pipeline_length
                         /\ e >= SatSub(block_epoch, ps.unbonding_length) ) =>
                          get(new, e) = get(old, e)
                    /\ e >= block_epoch + ps.pipeline_length =>
                          get(new, e) = Some(last_call'.value)]_vars

\* a write after pruning: the current epoch still sees an older, different,
\* value and the pipeline epoch sees the new one
C15_Witness ==
    /\ last_call.op = "set"
    /\ block_epoch > params.value.unbonding_length
    /\ LET data == validator_state[last_call.address].value
           now  == get(data, block_epoch)
       IN  /\ now.some
           /\ now.value # last_call.value
           /\ get(data, block_epoch + params.value.pipeline_length) = Some(last_call.value)
           /\ get(data, 0) = None

\* the start epoch of init_genesis: the epoch of the one entry of the total
\* voting power, which nothing writes after genesis
GenesisEpoch == CHOOSE k \in DOMAIN total_voting_power.value : TRUE

(***************************************************************************)
(* C16: after init_genesis at epoch s and become_validator calls at        *)
(* non-decreasing epochs, with c the epoch of the last call, a query of    *)
(* the validator set at every epoch e with                                 *)
(* max(s, c - unbonding_length) <= e <= c + pipeline_length returns a      *)
(* value: pruning removes no entry that an in-window query needs.          *)
(***************************************************************************)
C16_InWindowQueriesAnswered ==
    last_call.op = "become_validator" =>
       \A e \in QueryEpochs :
          ( /\ e >= GenesisEpoch
            /\ e >= SatSub(block_epoch, params.value.unbonding_length)
            /\ e <= block_epoch + params.value.pipeline_length ) =>
             get(validator_set.value, e).some

\* a successful call after which the entries before c - unbonding_length are
\* pruned: the oldest in-window epoch is answered, the epoch before it is not
C16_Witness ==
    /\ JustBecame
    /\ block_epoch - params.value.unbonding_length > GenesisEpoch
    /\ get(validator_set.value, block_epoch - params.value.unbonding_length).some
    /\ get(validator_set.value, block_epoch - params.value.unbonding_length - 1) = None

AddressesOf(vs) == { w.address : w \in Members(vs) }

\* the epoch from which the recorded state of a validator is effective: the
\* start epoch for a genesis validator, e + pipeline_length for a validator
\* registered at epoch e
EffectiveFrom(a) == CHOOSE k \in DOMAIN validator_state[a].value :
                        \A j \in DOMAIN validator_state[a].value : k <= j

(***************************************************************************)
(* C18: no registration is lost: after init_genesis and successful         *)
(* become_validator calls for distinct addresses at non-decreasing epochs  *)
(* (several in one epoch, or in consecutive epochs closer than             *)
(* pipeline_length), every address registered at epoch e is a member of    *)
(* the validator set effective at every queryable epoch                    *)
(* >= e + pipeline_length, and every genesis validator is a member at      *)
(* every queryable epoch.                                                  *)
(***************************************************************************)
C18_NoRegistrationLost ==
    params.some =>
       \A a \in Addresses :
          validator_state[a].some =>
             \A e \in QueryEpochs :
                (e >= EffectiveFrom(a) /\ get(validator_set.value, e).some) =>
                   a \in AddressesOf(get(validator_set.value, e).value)

(***************************************************************************)
(* C19: become_validator never changes the active partition: at every      *)
(* epoch that is queryable before and after a call, the active set of the  *)
(* validator set effective at that epoch is the same, so it stays the      *)
(* active set made by init_genesis.                                        *)
(***************************************************************************)
C19_ActiveFixedByGenesis ==
    [][(last_call'.op = "become_validator" /\ validator_set' # validator_set) =>
          \A e \in QueryEpochs :
             (get(validator_set.value, e).some /\ get(validator_set'.value, e).some) =>
                get(validator_set'.value, e).value.active
                   = get(validator_set.value, e).value.active]_vars

\* a new validator is in inactive although the active partition has a free slot
C19_Witness ==
    /\ JustBecame
    /\ LET vs == get(validator_set.value, block_epoch + params.value.pipeline_length)
       IN  /\ vs.some
           /\ WeightedValidator(0, last_call.address) \in vs.value.inactive
           /\ vs.value.active # {}
           /\ Cardinality(vs.value.active) < params.value.max_validator_slots

====
